---------------------------- MODULE Spec2Model ----------------------------
(***************************************************************************)
(* A model of cycamore's BatchReactor (src/Models/BatchReactor/            *)
(* batch_reactor.cc): the phase machine driven by tick and tock, the three *)
(* resource buffers (reserves_, core_, storage_) and the four resource     *)
(* exchange callbacks.  Quantities are whole units, so cyclus::eps() and   *)
(* cyclus::eps_rsrc() are 0.  An exception leaves the facility: it is      *)
(* recorded in err and nothing runs afterwards.  A call that does not      *)
(* return is recorded in err as "Unending".                                *)
(***************************************************************************)
EXTENDS Integers, Sequences, FiniteSets, TLC

VARIABLES
  process_time_,    \* ticks a full core is processed
  preorder_time_,   \* order lookahead
  start_time_,      \* tick at which phase(PROCESS) was last called
  n_batches_,       \* batches in a full core
  n_load_,          \* batches discharged at the end of a run
  n_reserves_,      \* batches to keep in reserves
  refuel_time_,     \* idle ticks between the end of a run and the next
  batch_size_,      \* quantity of one batch
  phase_,           \* INITIAL, PROCESS or WAITING
  reserves_,        \* ResourceBuff of fresh fuel: a sequence of materials
  core_,            \* ResourceBuff of fuel in the core
  storage_,         \* ResourceBuff of discharged fuel
  time,             \* context()->time()
  op,               \* the call made last
  args,             \* its arguments
  result,           \* what it returned
  err,              \* the exception that ended the simulation, or "none"
  trans,            \* the phase change made by the last tick
  end_of_run,       \* tick of the last PROCESS -> WAITING change, -1 before it
  prototype         \* the members of the facility this one was made from

vars == <<process_time_, preorder_time_, start_time_, n_batches_, n_load_,
          n_reserves_, refuel_time_, batch_size_, phase_, reserves_, core_,
          storage_, time, op, args, result, err, trans, end_of_run,
          prototype>>

config == <<process_time_, preorder_time_, n_batches_, n_load_, n_reserves_,
            refuel_time_, batch_size_, prototype>>

buffers == <<reserves_, core_, storage_>>

-----------------------------------------------------------------------------
(* Bounds of the model.                                                    *)

\* ticks run to process_time_ + refuel_time_ + MaxTime
MaxTime == 2
\* quantities of a request, a trade or a delivered material: 1..MaxQty steps
MaxQty == 3
\* purchase requests handed to one GetMatlBids call
MaxRequests == 2
\* trades handed to one GetMatlTrades call
MaxTrades == 2
\* materials handed to one AcceptMatlTrades call
MaxResponses == 2
\* reserves_ is not filled beyond MaxStock batches
MaxStock == 3

-----------------------------------------------------------------------------
(* Program constants.                                                      *)

INITIAL == "INITIAL"
PROCESS == "PROCESS"
WAITING == "WAITING"

in_commodity_ == "in_commodity"
in_recipe_ == "in_recipe"
out_commodity_ == "out_commodity"
out_recipe_ == "out_recipe"

\* cyclus::eps(), in whole units
eps == 0
\* cyclus::eps_rsrc(), in whole units
eps_rsrc == 0

-----------------------------------------------------------------------------
(* cyclus::Material and cyclus::ResourceBuff, as the facility uses them.   *)

Material(q, r) == [qty |-> q, recipe |-> r]

\* a->Absorb(b): a takes b's quantity
Absorb(a, b) == [a EXCEPT !.qty = a.qty + b.qty]

\* what is left of m after m->Extract(q)
ExtractRest(m, q) == [m EXCEPT !.qty = m.qty - q]

\* the material m->Extract(q) returns
Extract(m, q) == [m EXCEPT !.qty = q]

\* m->Transmute(r)
Transmute(m, r) == [m EXCEPT !.recipe = r]

RECURSIVE SumSeq(_)
SumSeq(s) == IF s = <<>> THEN 0 ELSE Head(s) + SumSeq(Tail(s))

RECURSIVE Quantity(_)
\* buf.quantity()
Quantity(buf) == IF buf = <<>> THEN 0 ELSE Head(buf).qty + Quantity(Tail(buf))

\* buf.count()
Count(buf) == Len(buf)

\* buf.Push(m)
Push(buf, m) == Append(buf, m)

Front(buf) == SubSeq(buf, 1, Len(buf) - 1)

Last(buf) == buf[Len(buf)]

RECURSIVE PopQty(_, _)
\* buf.PopQty(q) for q <= buf.quantity(): materials are taken from the front,
\* the last one split when it holds more than is still wanted
PopQty(buf, q) ==
  IF q <= eps_rsrc
    THEN [manifest |-> <<>>, rest |-> buf]
    ELSE LET h == Head(buf) IN
         IF h.qty <= q
           THEN LET r == PopQty(Tail(buf), q - h.qty) IN
                [manifest |-> <<h>> \o r.manifest, rest |-> r.rest]
           ELSE [manifest |-> <<Extract(h, q)>>,
                 rest |-> <<ExtractRest(h, q)>> \o Tail(buf)]

RECURSIVE AbsorbAll(_, _)
\* m absorbs every material of ms in turn
AbsorbAll(m, ms) ==
  IF ms = <<>> THEN m ELSE AbsorbAll(Absorb(m, Head(ms)), Tail(ms))

-----------------------------------------------------------------------------
(* The facility's accessors and helpers.                                   *)

\* n_core()
n_core == Count(core_)

\* end_time(): the tick at which the run in progress ends
end_time == start_time_ + process_time_

\* order_time(): the tick from which fuel for the next run is ordered
order_time == end_time - preorder_time_

\* BatchIn(buf, size): buf holds the quantity of a batch
BatchIn(buf, size) == Quantity(buf) >= size

\* a call that threw: nothing is returned
Thrown(e) == e # "none"

\* MoveBatchOut_ without the Transmute
MoveBatchOut_NoTransmute(core, storage) ==
  IF core = <<>>
    THEN [core |-> core, storage |-> storage, err |-> "ValueError"]
    ELSE [core |-> Tail(core), storage |-> Push(storage, Head(core)),
          err |-> "none"]

\* MoveBatchOut_ that pops the core from the back
MoveBatchOut_Back(core, storage) ==
  IF core = <<>>
    THEN [core |-> core, storage |-> storage, err |-> "ValueError"]
    ELSE [core |-> Front(core),
          storage |-> Push(storage, Transmute(Last(core), out_recipe_)),
          err |-> "none"]

\* BatchReactor::MoveBatchOut_(): core_.Pop() throws on an empty buffer
MoveBatchOut_(core, storage) ==
  IF core = <<>>
    THEN [core |-> core, storage |-> storage, err |-> "ValueError"]
    ELSE [core |-> Tail(core),
          storage |-> Push(storage, Transmute(Head(core), out_recipe_)),
          err |-> "none"]

RECURSIVE DischargeLoop(_, _, _)
\* for (int i = 0; i < n_load(); i++) MoveBatchOut_();
DischargeLoop(i, core, storage) ==
  IF i < n_load_
    THEN LET r == MoveBatchOut_(core, storage) IN
         IF Thrown(r.err) THEN r ELSE DischargeLoop(i + 1, r.core, r.storage)
    ELSE [core |-> core, storage |-> storage, err |-> "none"]

\* MoveBatchIn_ that pops reserves_ from the back
MoveBatchIn_Back(reserves, core) ==
  IF reserves = <<>>
    THEN [reserves |-> reserves, core |-> core, err |-> "ValueError"]
    ELSE [reserves |-> Front(reserves), core |-> Push(core, Last(reserves)),
          err |-> "none"]

\* BatchReactor::MoveBatchIn_(): reserves_.Pop() throws on an empty buffer
MoveBatchIn_(reserves, core) ==
  IF reserves = <<>>
    THEN [reserves |-> reserves, core |-> core, err |-> "ValueError"]
    ELSE [reserves |-> Tail(reserves), core |-> Push(core, Head(reserves)),
          err |-> "none"]

\* the condition of Refuel_'s loop without the test of n_core()
RefuelMore_Unbounded(reserves, core) == BatchIn(reserves, batch_size_)

\* the condition of Refuel_'s loop
RefuelMore(reserves, core) ==
  Count(core) < n_batches_ /\ BatchIn(reserves, batch_size_)

RECURSIVE Refuel_(_, _)
\* BatchReactor::Refuel_()
Refuel_(reserves, core) ==
  IF RefuelMore(reserves, core)
    THEN LET r == MoveBatchIn_(reserves, core) IN
         IF Thrown(r.err) THEN r ELSE Refuel_(r.reserves, r.core)
    ELSE [reserves |-> reserves, core |-> core, err |-> "none"]

\* phase(p) that leaves start_time_ as it is
phase_NoStartTime(p, t) == [phase_ |-> p, start_time_ |-> start_time_]

\* phase(p) that starts a later run at the tick the run before it ended
phase_StartAtEndOfRun(p, t) ==
  [phase_ |-> p,
   start_time_ |-> IF p # PROCESS THEN start_time_
                   ELSE IF start_time_ < 0 THEN t
                   ELSE start_time_ + process_time_]

\* phase(p) that goes back to INITIAL where a run ends
phase_Reinitialise(p, t) ==
  [phase_ |-> IF p = WAITING THEN INITIAL ELSE p,
   start_time_ |-> IF p = PROCESS THEN t ELSE start_time_]

\* BatchReactor::phase(p), called at tick t: entering PROCESS records the tick
phase(p, t) ==
  [phase_ |-> p, start_time_ |-> IF p = PROCESS THEN t ELSE start_time_]

\* the tick at which a run in PROCESS is discharged
ProcessDone(t) == t = end_time

\* the test of WAITING without refuel_time()
WaitingReady_NoRefuelTime(t) == n_core = n_batches_ /\ end_time <= t

\* the tick at which a facility in WAITING starts the next run
WaitingReady(t) == n_core = n_batches_ /\ end_time + refuel_time_ <= t

\* the tick at which a facility in INITIAL starts its first run
InitialReady == n_core = n_batches_

\* the end of AddBatches_ without its while loop: what is left of mat is pushed
\* as it is
ExtractBatches_Whole(reserves, mat) ==
  IF mat.qty > eps_rsrc THEN Push(reserves, mat) ELSE reserves

RECURSIVE ExtractBatches(_, _)
\* while (mat->quantity() > batch_size()) reserves_.Push(mat->Extract(batch_size()));
\* if (mat->quantity() > eps_rsrc()) reserves_.Push(mat);
ExtractBatches(reserves, mat) ==
  IF mat.qty > batch_size_
    THEN ExtractBatches(Push(reserves, Extract(mat, batch_size_)),
                        ExtractRest(mat, batch_size_))
    ELSE IF mat.qty > eps_rsrc THEN Push(reserves, mat) ELSE reserves

\* the while loop of AddBatches_ comes to an end: each pass takes batch_size_ from
\* mat, so on a mat larger than a batch_size_ of 0 it runs for ever
ExtractEnds(mat) == batch_size_ > 0 \/ mat.qty <= batch_size_

\* the end of AddBatches_, from its while loop: reserves_ after it, or a call that
\* does not return
PushBatches(reserves, mat) ==
  IF ExtractEnds(mat)
    THEN [reserves |-> ExtractBatches(reserves, mat), err |-> "none"]
    ELSE [reserves |-> reserves, err |-> "Unending"]

\* AddBatches_ that does not top up the last batch of reserves_
AddBatches_NoTopUp(reserves, mat) ==
  IF reserves = <<>>
    THEN [reserves |-> reserves, err |-> "ValueError"]
    ELSE PushBatches(reserves, mat)

\* BatchReactor::AddBatches_(mat): reserves_.PopBack() throws on an empty buffer
AddBatches_(reserves, mat) ==
  IF reserves = <<>>
    THEN [reserves |-> reserves, err |-> "ValueError"]
    ELSE LET last == Last(reserves)
             rest == Front(reserves)
         IN  IF last.qty < batch_size_
               THEN IF last.qty + mat.qty <= batch_size_
                      THEN [reserves |-> Push(rest, Absorb(last, mat)),
                            err |-> "none"]
                      ELSE LET bit == batch_size_ - last.qty IN
                           PushBatches(
                             Push(rest, Absorb(last, Extract(mat, bit))),
                             ExtractRest(mat, bit))
               ELSE PushBatches(Push(rest, last), mat)

\* order_size of GetMatlRequests: what reserves_ lacks of n_reserves batches
order_size == n_reserves_ * batch_size_ - Quantity(reserves_)

\* GetOrder_ with the constraint of a whole stock of reserves
GetOrder_WholeStock(size) ==
  [requests |-> <<[target |-> Material(size, in_recipe_),
                   commodity |-> in_commodity_]>>,
   constraints |-> <<n_reserves_ * batch_size_>>]

\* BatchReactor::GetOrder_(size)
GetOrder_(size) ==
  [requests |-> <<[target |-> Material(size, in_recipe_),
                   commodity |-> in_commodity_]>>,
   constraints |-> <<size>>]

\* the test of GetMatlBids with <= for <
BidOn_Inclusive(qty, storage) == qty <= Quantity(storage)

\* the test of GetMatlBids on one request
BidOn(qty, storage) == qty < Quantity(storage)

\* the bids GetMatlBids adds to its portfolio, one for each request it answers
Bids(requests, storage) ==
  {[request |-> i, offer |-> Material(requests[i], out_recipe_)] :
     i \in {j \in 1..Len(requests) : BidOn(requests[j], storage)}}

\* the capacity constraint as storage_.count()
BidConstraint_Count(storage) == Count(storage)

\* the capacity constraint GetMatlBids adds to its portfolio
BidConstraint(storage) == Quantity(storage)

\* the response without the Absorb of the rest of the manifest
TradeResponse_FirstOnly(qty, storage) ==
  LET p == PopQty(storage, qty) IN
  [response |-> Head(p.manifest), storage |-> p.rest]

\* one pass of GetMatlTrades' loop: the response to a trade of qty
TradeResponse(qty, storage) ==
  LET p == PopQty(storage, qty) IN
  [response |-> AbsorbAll(Head(p.manifest), Tail(p.manifest)),
   storage |-> p.rest]

RECURSIVE TradeLoop(_, _, _)
\* GetMatlTrades' loop over trades i..: the responses and the storage left
TradeLoop(trades, i, storage) ==
  IF i > Len(trades)
    THEN [responses |-> <<>>, storage |-> storage]
    ELSE LET r == TradeResponse(trades[i], storage)
             n == TradeLoop(trades, i + 1, r.storage)
         IN  [responses |-> <<[trade |-> i, material |-> r.response]>>
                            \o n.responses,
              storage |-> n.storage]

-----------------------------------------------------------------------------
(* The configurations and the inputs the model runs.                       *)

\* the values InitModuleMembers reads for a facility
ProcessTimes == {0, 1, 2}
RefuelTimes == {0, 2}
PreorderTimes == {0, 1}
NBatches == {1, 2}
NLoads == {1, 2}
NReserves == {0, 1, 2}
BatchSizes == {2}

\* the configurations run: every timing and loading with the default ordering,
\* and every ordering with one timing and loading
Configured(pt, rt, po, nb, nl, nr) ==
  \/ po = 0 /\ nr = 1
  \/ pt = 1 /\ rt = 0 /\ nb = 1 /\ nl = 1

\* the last tick the model runs
Horizon == process_time_ + refuel_time_ + MaxTime

\* quantities come in steps of one unit, or of half a batch when batches are large
QtyStep == IF batch_size_ > MaxQty THEN batch_size_ \div 2 ELSE 1

\* the quantities of requests, trades and delivered materials
Qtys == {k * QtyStep : k \in 1..MaxQty}

\* the quantity the model lets reserves_ grow to
StockLimit == MaxStock * (IF batch_size_ > 0 THEN batch_size_ ELSE 1)

\* the sequences over S of m to n elements
SeqsOf(S, m, n) == UNION {[1..k -> S] : k \in m..n}

\* those listed in ascending order: the order of the requests of a commodity, and
\* of the materials absorbed into one, changes nothing the facility does with them
AscendingSeqsOf(S, m, n) ==
  {s \in SeqsOf(S, m, n) : \A i \in 1..(Len(s) - 1) : s[i] <= s[i + 1]}

\* n fresh batches of size q
FullBatches(n, q) == [i \in 1..n |-> Material(q, in_recipe_)]

\* a buffer of fresh fuel as AddBatches_ leaves it: full batches, then at most
\* one smaller batch
Stocked(n, part, q) ==
  IF part = 0 THEN FullBatches(n, q)
  ELSE Push(FullBatches(n, q), Material(part, in_recipe_))

-----------------------------------------------------------------------------
(* The state after construction and deployment.  The constructor sets      *)
(* start_time_ to -1 and Deploy sets phase_ to INITIAL; InitModuleMembers   *)
(* reads the configuration.  The core is empty or "primed to go", and the  *)
(* reserves are empty or stocked.                                          *)

\* the members InitModuleMembers reads, and start_time_ as the constructor sets it
Configuration(pt, rt, po, nb, nl, nr, bs) ==
  [process_time_ |-> pt, refuel_time_ |-> rt, preorder_time_ |-> po,
   n_batches_ |-> nb, n_load_ |-> nl, n_reserves_ |-> nr, batch_size_ |-> bs,
   start_time_ |-> -1]

\* BatchReactor::Clone() of a facility of members P: a new BatchReactor, whose
\* members are the constructor's, and the setters Clone calls.  The commodities
\* and recipes, which Clone copies too, are the same in every facility here.
Clone(P) ==
  [process_time_ |-> P.process_time_,
   preorder_time_ |-> P.preorder_time_,
   start_time_ |-> P.start_time_,
   n_batches_ |-> P.n_batches_,
   n_load_ |-> P.n_load_,
   n_reserves_ |-> P.n_reserves_,
   batch_size_ |-> P.batch_size_,
   refuel_time_ |-> 0]

\* a facility of members c, made from the facility of members proto, deployed
\* and holding core and reserves
DeployedFrom(proto, c, core, reserves) ==
  /\ prototype = proto
  /\ process_time_ = c.process_time_
  /\ refuel_time_ = c.refuel_time_
  /\ preorder_time_ = c.preorder_time_
  /\ n_batches_ = c.n_batches_
  /\ n_load_ = c.n_load_
  /\ n_reserves_ = c.n_reserves_
  /\ batch_size_ = c.batch_size_
  /\ start_time_ = c.start_time_
  /\ phase_ = INITIAL
  /\ reserves_ = reserves
  /\ core_ = core
  /\ storage_ = <<>>
  /\ time = 0
  /\ op = "Deploy"
  /\ args = <<>>
  /\ result = <<>>
  /\ err = "none"
  /\ trans = "none"
  /\ end_of_run = -1

\* a facility configured and deployed, holding core and reserves
Deployed(pt, rt, po, nb, nl, nr, bs, core, reserves) ==
  LET c == Configuration(pt, rt, po, nb, nl, nr, bs)
  IN  DeployedFrom(c, c, core, reserves)

\* the same with a core of ncore full batches and reserves of nres full batches
\* and a batch of part units
InitState(pt, rt, po, nb, nl, nr, bs, ncore, nres, part) ==
  Deployed(pt, rt, po, nb, nl, nr, bs, FullBatches(ncore, bs),
           Stocked(nres, part, bs))

Init ==
  \E pt \in ProcessTimes, rt \in RefuelTimes, po \in PreorderTimes,
     nb \in NBatches, nl \in NLoads, nr \in NReserves, bs \in BatchSizes :
    \E ncore \in {0, nb}, stock \in 0..1 :
      /\ Configured(pt, rt, po, nb, nl, nr)
      /\ InitState(pt, rt, po, nb, nl, nr, bs, ncore, stock, stock)

-----------------------------------------------------------------------------
(* The calls.  The stepper ticks, the exchange then asks for requests and   *)
(* bids and settles trades, and the stepper tocks; a step may leave out any *)
(* of the exchange's calls.                                                 *)

OpIndex(o) ==
  CASE o = "Deploy" -> 0
    [] o = "HandleTick" -> 1
    [] o = "GetMatlRequests" -> 2
    [] o = "GetMatlBids" -> 3
    [] o = "GetMatlTrades" -> 4
    [] o = "AcceptMatlTrades" -> 5
    [] o = "HandleTock" -> 6

\* the exchange may make call o now
Callable(o) ==
  /\ err = "none"
  /\ OpIndex(op) >= 1
  /\ OpIndex(op) < OpIndex(o)

\* BatchReactor::HandleTick(time), with BatchReactor::phase(p)
HandleTick ==
  /\ err = "none"
  /\ op \in {"Deploy", "HandleTock"}
  /\ LET t == IF op = "Deploy" THEN time ELSE time + 1 IN
     /\ t <= Horizon
     /\ time' = t
     /\ op' = "HandleTick"
     /\ args' = t
     /\ result' = <<>>
     /\ CASE phase_ = PROCESS /\ ProcessDone(t) ->
               LET r == DischargeLoop(0, core_, storage_) IN
               /\ core_' = r.core
               /\ storage_' = r.storage
               /\ err' = r.err
               /\ phase_' = IF Thrown(r.err) THEN phase_
                            ELSE phase(WAITING, t).phase_
               /\ start_time_' = IF Thrown(r.err) THEN start_time_
                                 ELSE phase(WAITING, t).start_time_
               /\ trans' = IF Thrown(r.err) THEN "none" ELSE "PROCESS->WAITING"
               /\ end_of_run' = IF Thrown(r.err) THEN end_of_run ELSE t
          [] phase_ = WAITING /\ WaitingReady(t) ->
               /\ phase_' = phase(PROCESS, t).phase_
               /\ start_time_' = phase(PROCESS, t).start_time_
               /\ trans' = "WAITING->PROCESS"
               /\ UNCHANGED <<core_, storage_, err, end_of_run>>
          [] phase_ = INITIAL /\ InitialReady ->
               /\ phase_' = phase(PROCESS, t).phase_
               /\ start_time_' = phase(PROCESS, t).start_time_
               /\ trans' = "INITIAL->PROCESS"
               /\ UNCHANGED <<core_, storage_, err, end_of_run>>
          [] OTHER ->
               /\ trans' = "none"
               /\ UNCHANGED <<phase_, start_time_, core_, storage_, err,
                              end_of_run>>
  /\ UNCHANGED <<config, reserves_>>

\* BatchReactor::HandleTock(time)
HandleTock ==
  /\ Callable("HandleTock")
  /\ op' = "HandleTock"
  /\ args' = time
  /\ result' = <<>>
  /\ IF phase_ \in {INITIAL, WAITING}
       THEN LET r == Refuel_(reserves_, core_) IN
            /\ reserves_' = r.reserves
            /\ core_' = r.core
            /\ err' = r.err
       ELSE UNCHANGED <<reserves_, core_, err>>
  /\ UNCHANGED <<config, start_time_, phase_, storage_, time, trans,
                 end_of_run>>

\* BatchReactor::GetMatlRequests()
GetMatlRequests ==
  /\ Callable("GetMatlRequests")
  /\ op' = "GetMatlRequests"
  /\ args' = <<>>
  /\ result' = IF order_time <= time /\ order_size > eps
              THEN {GetOrder_(order_size)}
              ELSE {}
  /\ UNCHANGED <<config, start_time_, phase_, buffers, time, err, trans,
                 end_of_run>>

\* BatchReactor::GetMatlBids(commod_requests): commod_requests.at(out_commodity_)
\* throws when the map holds no entry for out_commodity_ (present = FALSE)
GetMatlBids ==
  /\ Callable("GetMatlBids")
  /\ op' = "GetMatlBids"
  /\ \E present \in BOOLEAN, requests \in AscendingSeqsOf(Qtys, 0, MaxRequests) :
       /\ present \/ requests = <<>>
       /\ args' = [present |-> present, requests |-> requests]
       /\ IF ~present
            THEN /\ err' = "out_of_range"
                 /\ result' = {}
            ELSE /\ err' = err
                 /\ result' = {[bids |-> Bids(requests, storage_),
                             constraints |-> <<BidConstraint(storage_)>>]}
  /\ UNCHANGED <<config, start_time_, phase_, buffers, time, trans,
                 end_of_run>>

\* BatchReactor::GetMatlTrades(trades, responses), for trades the exchange
\* matched under the capacity constraint of the bids
GetMatlTrades ==
  /\ Callable("GetMatlTrades")
  /\ op' = "GetMatlTrades"
  /\ \E trades \in SeqsOf(Qtys, 1, MaxTrades) :
       /\ SumSeq(trades) <= Quantity(storage_)
       /\ args' = trades
       /\ LET r == TradeLoop(trades, 1, storage_) IN
          /\ result' = r.responses
          /\ storage_' = r.storage
  /\ UNCHANGED <<config, start_time_, phase_, reserves_, core_, time, err,
                 trans, end_of_run>>

\* BatchReactor::AcceptMatlTrades(responses)
AcceptMatlTrades ==
  /\ Callable("AcceptMatlTrades")
  /\ op' = "AcceptMatlTrades"
  /\ \E responses \in AscendingSeqsOf(Qtys, 1, MaxResponses) :
       /\ Quantity(reserves_) + SumSeq(responses) <= StockLimit
       /\ args' = responses
       /\ LET mats == [i \in 1..Len(responses) |->
                         Material(responses[i], in_recipe_)]
              mat == AbsorbAll(Head(mats), Tail(mats))
              r == AddBatches_(reserves_, mat)
          IN  /\ reserves_' = r.reserves
              /\ err' = r.err
  /\ result' = <<>>
  /\ UNCHANGED <<config, start_time_, phase_, core_, storage_, time, trans,
                 end_of_run>>

Next ==
  \/ HandleTick
  \/ GetMatlRequests
  \/ GetMatlBids
  \/ GetMatlTrades
  \/ AcceptMatlTrades
  \/ HandleTock

Spec == Init /\ [][Next]_vars

-----------------------------------------------------------------------------
(* The scenario of a primed core: batch_size 10, n_batches 3, process_time *)
(* 5, refuel_time 0, with n_load and n_reserves at their default of 1 or   *)
(* configured as 3, and reserves empty, part stocked or fully stocked.     *)

ScenarioInit ==
  \E nl \in {1, 3}, nr \in {1, 3}, stock \in {0, 1, 3} :
    InitState(5, 0, 0, 3, nl, nr, 10, 3, stock, IF stock = 1 THEN 5 ELSE 0)

ScenarioSpec == ScenarioInit /\ [][Next]_vars

-----------------------------------------------------------------------------
(* A core primed with batches that are told apart by their quantities, so  *)
(* that the order in which they are discharged shows in storage.           *)

DischargeInit ==
  \E nb \in {2, 3}, nl \in 1..3, stock \in 0..1 :
    \E core \in [1..nb -> {Material(q, in_recipe_) : q \in 1..2}] :
      Deployed(1, 0, 0, nb, nl, 1, 2, core, Stocked(stock, stock, 2))

DischargeSpec == DischargeInit /\ [][Next]_vars

-----------------------------------------------------------------------------
(* The batch sizes InitModuleMembers takes.  The schema gives batchsize as  *)
(* a double, and lexical_cast<int> reads "0" as 0: a batch_size of 0 is    *)
(* configured like any other.  The core and the reserves are empty or hold *)
(* batches of 2 units, and one of 1 unit behind them in reserves.           *)

ConfigBatchSizes == {0, 2}

ConfigInit ==
  \E pt \in {0, 1}, nb \in NBatches, bs \in ConfigBatchSizes :
    \E ncore \in {0, nb}, stock \in 0..1 :
      Deployed(pt, 0, 0, nb, 1, 1, bs, FullBatches(ncore, 2),
               Stocked(stock, stock, 2))

ConfigSpec == ConfigInit /\ [][Next]_vars

-----------------------------------------------------------------------------
(* An exchange that delivers no more than was asked for.  The request      *)
(* portfolio of GetMatlRequests carries the capacity constraint of          *)
(* GetOrder_; the exchange delivers within it, in the step of the request,  *)
(* and delivers nothing in a step without a request.  The facility is      *)
(* deployed with no more in reserves than n_reserves batches.               *)

\* the capacity constraint of the request made last, 0 when there is none
Requested ==
  IF op = "GetMatlRequests" /\ result # {}
    THEN (CHOOSE port \in result : TRUE).constraints[1]
    ELSE 0

\* AcceptMatlTrades with what the exchange matched to the request
Supply ==
  /\ op = "GetMatlRequests"
  /\ result # {}
  /\ AcceptMatlTrades
  /\ SumSeq(args') <= Requested

SupplyInit ==
  \E po \in PreorderTimes, nb \in NBatches, nr \in NReserves :
    \E ncore \in {0, nb}, nres \in 0..1, part \in 0..1 :
      /\ nres * 2 + part <= nr * 2
      /\ InitState(1, 0, po, nb, 1, nr, 2, ncore, nres, part)

SupplyNext ==
  \/ HandleTick
  \/ GetMatlRequests
  \/ GetMatlBids
  \/ GetMatlTrades
  \/ Supply
  \/ HandleTock

SupplySpec == SupplyInit /\ [][SupplyNext]_vars

-----------------------------------------------------------------------------
(* The clone of a configured facility.  The facility that runs is what      *)
(* Clone() makes of the configured one: a new BatchReactor, which the       *)
(* setters that Clone calls fill in, deployed as any facility is.           *)

CloneInit ==
  \E pt \in {1, 2}, rt \in RefuelTimes, nb \in NBatches, nl \in NLoads,
     nr \in {1, 2} :
    \E ncore \in {0, nb}, stock \in 0..1 :
      LET P == Configuration(pt, rt, 0, nb, nl, nr, 2)
      IN  /\ nl <= nb
          /\ DeployedFrom(P, Clone(P), FullBatches(ncore, 2),
                          Stocked(stock, stock, 2))

CloneSpec == CloneInit /\ [][Next]_vars

-----------------------------------------------------------------------------
(* An exchange that delivers all that is asked for, and a stepper that      *)
(* keeps stepping: in each step a tick, order sizing, the delivery of what  *)
(* was asked for, if anything, and a tock.  The facility sells nothing.     *)

\* order sizing, once in each step
LiveRequest == op = "HandleTick" /\ GetMatlRequests

\* the delivery of all that was asked for
FullSupply == Supply /\ SumSeq(args') = Requested

\* the tock, once what was asked for has been delivered
LiveTock ==
  /\ op = "AcceptMatlTrades" \/ (op = "GetMatlRequests" /\ result = {})
  /\ HandleTock

LiveInit ==
  \E pt \in {1, 2}, nb \in NBatches, nl \in NLoads, nr \in {1, 2} :
    \E ncore \in {0, nb}, stock \in 0..1 :
      /\ nl <= nb
      /\ InitState(pt, 0, 0, nb, nl, nr, 2, ncore, stock, stock)

LiveNext ==
  \/ HandleTick
  \/ LiveRequest
  \/ FullSupply
  \/ LiveTock

LiveSpec == LiveInit /\ [][LiveNext]_vars /\ WF_vars(LiveNext)

-----------------------------------------------------------------------------
(* What the claims speak of.                                               *)

\* the material the facility holds
TotalQuantity == Quantity(reserves_) + Quantity(core_) + Quantity(storage_)

\* the batches of buf smaller than a batch
Partial(buf) == {i \in 1..Len(buf) : buf[i].qty < batch_size_}

RECURSIVE BidSum(_)
\* the quantity offered by a set of bids
BidSum(bids) ==
  IF bids = {} THEN 0
  ELSE LET b == CHOOSE x \in bids : TRUE IN b.offer.qty + BidSum(bids \ {b})

\* the call made last returned
Returned(o) == op = o /\ err = "none"

-----------------------------------------------------------------------------
(* C1.  Mass conservation.                                                 *)

\* C1: the quantity held in reserves, core and storage together rises by exactly
\* the delivered quantity in a delivery-absorption call, falls by exactly the sum
\* of the traded amounts in a trade-settlement call, and is left unchanged by
\* every other call.
C1_MassConservation ==
  [][/\ op' = "AcceptMatlTrades" => TotalQuantity' = TotalQuantity + SumSeq(args')
     /\ op' = "GetMatlTrades" => TotalQuantity' = TotalQuantity - SumSeq(args')
     /\ op' \notin {"AcceptMatlTrades", "GetMatlTrades"} =>
          TotalQuantity' = TotalQuantity]_vars

\* the same of the calls that return: only the delivery that throws loses material
C1_MassConservationOfReturningCalls ==
  [][err' = "none" =>
       /\ op' = "AcceptMatlTrades" =>
            TotalQuantity' = TotalQuantity + SumSeq(args')
       /\ op' = "GetMatlTrades" =>
            TotalQuantity' = TotalQuantity - SumSeq(args')
       /\ op' \notin {"AcceptMatlTrades", "GetMatlTrades"} =>
            TotalQuantity' = TotalQuantity]_vars

-----------------------------------------------------------------------------
(* C2.  The end of a run.                                                  *)

\* C2: a run that entered PROCESS at tick start_time_ is not ended by a tick before
\* start_time_ + process_time_, and is ended by the tick start_time_ +
\* process_time_ or the one after: once that tick has been handled the facility
\* is no longer in PROCESS.  This for every process_time_ >= 0.
C2_DischargeOnTime ==
  /\ (op = "HandleTick" /\ trans = "PROCESS->WAITING") =>
       time >= start_time_ + process_time_
  /\ phase_ = PROCESS => time <= start_time_ + process_time_

\* what holds of the code: the run ends at no other tick than start_time_ +
\* process_time_, and has ended by then when process_time_ >= 1 and the
\* discharge did not throw
C2_DischargeOnTimeOfPositiveProcessTime ==
  /\ (op = "HandleTick" /\ trans = "PROCESS->WAITING") =>
       time = start_time_ + process_time_
  /\ (phase_ = PROCESS /\ process_time_ >= 1 /\ err = "none") =>
       time < start_time_ + process_time_

-----------------------------------------------------------------------------
(* C3.  The start of the next run.                                         *)

\* C3: a tick moves the facility from WAITING to PROCESS only at or after
\* end_of_run + refuel_time_, end_of_run being the tick of the last PROCESS ->
\* WAITING change, and only with a core of n_batches_ batches.
C3_RefuelTimeRespected ==
  /\ (op = "HandleTick" /\ trans = "WAITING->PROCESS") =>
       /\ time >= end_of_run + refuel_time_
       /\ Count(core_) = n_batches_
  /\ (phase_ = PROCESS /\ end_of_run >= 0) =>
       start_time_ >= end_of_run + refuel_time_

\* a tick handled in WAITING with a full core, before end_of_run + refuel_time_:
\* it did not start the run
C3_Witness ==
  /\ Returned("HandleTick")
  /\ phase_ = WAITING
  /\ Count(core_) = n_batches_
  /\ time > end_of_run
  /\ time < end_of_run + refuel_time_

-----------------------------------------------------------------------------
(* C4.  The core is never overfull.                                        *)

\* C4: in every reachable state core_.count() <= n_batches_.
C4_CoreNeverOverfull == Count(core_) <= n_batches_

\* a tock that refuelled a discharged core and stopped at n_batches_ with a full
\* batch still in reserves
C4_Witness ==
  /\ Returned("HandleTock")
  /\ phase_ = WAITING
  /\ Count(core_) = n_batches_
  /\ BatchIn(reserves_, batch_size_)

-----------------------------------------------------------------------------
(* C5.  Reserves are quantized.                                            *)

\* C5: after every delivery-absorption call reserves_ holds at most one batch
\* smaller than batch_size_, and every other batch is of batch_size_ exactly.
C5_ReservesQuantized ==
  op = "AcceptMatlTrades" =>
    /\ Cardinality(Partial(reserves_)) <= 1
    /\ \A i \in 1..Len(reserves_) : reserves_[i].qty <= batch_size_

\* a delivery larger than a batch that topped up a smaller batch and left
\* another one behind the full batches
C5_Witness ==
  /\ Returned("AcceptMatlTrades")
  /\ SumSeq(args) > batch_size_
  /\ Len(reserves_) >= 3
  /\ Partial(reserves_) = {Len(reserves_)}
  /\ Quantity(reserves_) - SumSeq(args) \in 1..(batch_size_ - 1)

-----------------------------------------------------------------------------
(* C6.  The bids and the capacity constraint.                              *)

\* C6: the bid portfolio returned by bid generation carries one capacity
\* constraint, equal to storage_.quantity(), and the quantities of its bids
\* together do not exceed that constraint.
C6_BidsWithinConstraint ==
  Returned("GetMatlBids") =>
    /\ Cardinality(result) = 1
    /\ \A port \in result :
         /\ port.constraints = <<Quantity(storage_)>>
         /\ BidSum(port.bids) <= port.constraints[1]

\* C6, amended: the bid portfolio returned by bid generation carries one capacity
\* constraint, equal to storage_.quantity(), and the quantity of each of its bids
\* is strictly less than that constraint (the bids together may exceed it).
C6_EachBidWithinConstraint ==
  Returned("GetMatlBids") =>
    /\ Cardinality(result) = 1
    /\ \A port \in result :
         /\ port.constraints = <<Quantity(storage_)>>
         /\ \A bid \in port.bids : bid.offer.qty < port.constraints[1]

\* a portfolio of two bids that together offer more than storage holds
C6_Witness ==
  /\ Returned("GetMatlBids")
  /\ \E port \in result :
       /\ Cardinality(port.bids) = 2
       /\ BidSum(port.bids) > Quantity(storage_)

-----------------------------------------------------------------------------
(* C7.  Which requests are bid on.                                         *)

\* C7: bid generation emits a bid for a request if and only if the requested
\* quantity is strictly less than storage_.quantity(); each bid offers exactly
\* the requested quantity at out_recipe_; a request for storage_.quantity() or
\* more gets no bid, and the call returns.
C7_BidIffStrictlyLess ==
  (op = "GetMatlBids" /\ args.present) =>
    /\ err = "none"
    /\ Cardinality(result) = 1
    /\ \A port \in result :
         /\ \A i \in 1..Len(args.requests) :
              (\E bid \in port.bids : bid.request = i)
                <=> args.requests[i] < Quantity(storage_)
         /\ \A bid \in port.bids :
              /\ bid.request \in 1..Len(args.requests)
              /\ bid.offer.qty = args.requests[bid.request]
              /\ bid.offer.recipe = out_recipe_
         /\ Cardinality(port.bids) <= Len(args.requests)

\* a request for less than storage holds that was bid on, beside one for exactly
\* what storage holds that was not
C7_Witness ==
  /\ Returned("GetMatlBids")
  /\ Len(args.requests) = 2
  /\ args.requests[1] < Quantity(storage_)
  /\ args.requests[2] = Quantity(storage_)
  /\ \E port \in result : {bid.request : bid \in port.bids} = {1}

-----------------------------------------------------------------------------
(* C8.  Trade settlement.                                                  *)

\* C8: for trades of positive amounts that together do not exceed
\* storage_.quantity(), trade settlement returns one response for each trade, in
\* the order of the trades, each a material of the trade's amount, and
\* storage_.quantity() falls by the sum of the amounts.
C8_TradeSettlement ==
  [][op' = "GetMatlTrades" =>
       /\ err' = "none"
       /\ Len(result') = Len(args')
       /\ \A i \in 1..Len(args') :
            /\ result'[i].trade = i
            /\ result'[i].material.qty = args'[i]
       /\ Quantity(storage_') = Quantity(storage_) - SumSeq(args')]_vars

\* two trades settled, the first of more than one batch, with part of a batch
\* left in storage
C8_Witness ==
  /\ Returned("GetMatlTrades")
  /\ Len(args) = 2
  /\ args[1] > batch_size_
  /\ result[1].material.qty = args[1]
  /\ Partial(storage_) # {}

-----------------------------------------------------------------------------
(* C9.  Order sizing.                                                      *)

\* C9: with deficit = n_reserves_ * batch_size_ - reserves_.quantity(), order
\* sizing returns no request when deficit <= eps; when deficit > eps and the
\* order time has been reached it returns one portfolio, of one request of
\* quantity deficit for in_commodity_ at in_recipe_, with one capacity
\* constraint equal to deficit; and it never returns more than one portfolio.
C9_OrderSizing ==
  op = "GetMatlRequests" =>
    LET deficit == n_reserves_ * batch_size_ - Quantity(reserves_) IN
    /\ err = "none"
    /\ deficit <= eps => result = {}
    /\ (deficit > eps /\ order_time <= time) =>
         result = {[requests |-> <<[target |-> [qty |-> deficit,
                                             recipe |-> in_recipe_],
                                 commodity |-> in_commodity_]>>,
                 constraints |-> <<deficit>>]}
    /\ Cardinality(result) <= 1

\* an order for what a part-filled reserves lacks of two batches
C9_Witness ==
  /\ Returned("GetMatlRequests")
  /\ n_reserves_ = 2
  /\ Partial(reserves_) # {}
  /\ result # {}
  /\ \A port \in result :
       port.constraints[1] = 2 * batch_size_ - Quantity(reserves_)

-----------------------------------------------------------------------------
(* C10.  The scenario of a primed core, to the first discharge.            *)

\* what the scenario says of the ticks 0 and 5
ScenarioToDischarge ==
  /\ (Returned("HandleTick") /\ time = 0) =>
       /\ phase_ = PROCESS
       /\ start_time_ = 0
  /\ (op = "HandleTick" /\ time = 5) =>
       /\ err = "none"
       /\ Count(core_) = 0
       /\ storage_ = [i \in 1..3 |-> Material(10, out_recipe_)]
       /\ phase_ = WAITING

\* C10: with batch_size 10, n_batches 3, process_time 5, refuel_time 0 and a core
\* of 3 batches of 10 in INITIAL, tick 0 moves the facility to PROCESS with
\* start_time 0, and tick 5 discharges three batches of 10 to storage, which
\* then holds 30 units of out_recipe while the core holds none, and moves the
\* facility to WAITING.
C10_ScenarioDischarge == ScenarioToDischarge

\* C10, amended: the same when n_load is 3 as well; with the default n_load of 1,
\* tick 5 discharges one batch.
C10_ScenarioDischargeOfFullLoad == n_load_ = 3 => ScenarioToDischarge

\* tick 5 handled with n_load 3: the core is empty and storage holds 30 units
C10_Witness ==
  /\ Returned("HandleTick")
  /\ time = 5
  /\ n_load_ = 3
  /\ phase_ = WAITING
  /\ trans = "PROCESS->WAITING"
  /\ Quantity(storage_) = 30
  /\ core_ = <<>>

-----------------------------------------------------------------------------
(* C11.  The scenario of a primed core, from the first discharge.          *)

\* the first n batches of buf are batches of batch_size_
HoldsFullBatches(buf, n) ==
  /\ Len(buf) >= n
  /\ \A i \in 1..n : buf[i].qty = batch_size_

\* what the scenario says of the tock of step 5 and of the tick after it, the
\* run then starting with start_time st
ScenarioFromDischarge(st) ==
  /\ (/\ op' = "HandleTock"
      /\ time' = 5
      /\ end_of_run = 5
      /\ HoldsFullBatches(reserves_, 3)) =>
       /\ err' = "none"
       /\ Count(core_') = 3
  /\ (/\ op' = "HandleTick"
      /\ time' = 6
      /\ end_of_run = 5
      /\ Count(core_) = 3) =>
       /\ err' = "none"
       /\ phase_' = PROCESS
       /\ start_time_' = st

\* C11: with batch_size 10, n_batches 3, process_time 5, refuel_time 0, after the
\* discharge at tick 5 and with reserves holding 3 full batches, the tock of step
\* 5 refuels the core to 3 batches, and the following tick moves the facility to
\* PROCESS with start_time 5.
C11_ScenarioRefuel == [][ScenarioFromDischarge(5)]_vars

\* C11, amended: the same, the following tick being tick 6 and start_time 6.
C11_ScenarioRefuelStartsAtNextTick == [][ScenarioFromDischarge(6)]_vars

\* tick 6 handled after a discharge of the whole core at tick 5 and a tock that
\* loaded three batches: the second run has started, at 6
C11_Witness ==
  /\ Returned("HandleTick")
  /\ time = 6
  /\ end_of_run = 5
  /\ n_load_ = 3
  /\ Count(core_) = 3
  /\ trans = "WAITING->PROCESS"
  /\ start_time_ = 6

-----------------------------------------------------------------------------
(* C12.  A delivery into empty reserves.                                   *)

\* q units as full batches followed by one batch of the remainder, if any
BatchesOf(q) ==
  [i \in 1..((q + batch_size_ - 1) \div batch_size_) |->
     Material(IF i <= q \div batch_size_ THEN batch_size_
              ELSE q % batch_size_, in_recipe_)]

\* C12: a delivery of q units into empty reserves returns without an error and
\* leaves reserves holding floor(q / batch_size_) full batches followed by at most
\* one batch of the remainder: 10, 10, 5 for 25 units and batch_size_ 10.
C12_DeliveryIntoEmptyReserves ==
  [][(op' = "AcceptMatlTrades" /\ reserves_ = <<>>) =>
       /\ err' = "none"
       /\ reserves_' = BatchesOf(SumSeq(args'))]_vars

-----------------------------------------------------------------------------
(* C13.  The discharge.                                                    *)

\* the first n batches of buf, re-tagged with out_recipe_
Discharged(buf, n) == [i \in 1..n |-> Material(buf[i].qty, out_recipe_)]

\* C13: the change from PROCESS to WAITING is made by a tick that has moved
\* exactly n_load_ batches from the front of the core to the back of storage, in
\* the order of the core, each with out_recipe_ and its quantity unchanged: the
\* core holds n_load_ batches fewer and storage n_load_ more.
C13_DischargeMovesLoad ==
  [][(phase_ = PROCESS /\ phase_' = WAITING) =>
       /\ op' = "HandleTick"
       /\ err' = "none"
       /\ Count(core_) >= n_load_
       /\ core_' = SubSeq(core_, n_load_ + 1, Len(core_))
       /\ storage_' = storage_ \o Discharged(core_, n_load_)
       /\ Count(core_') = Count(core_) - n_load_
       /\ Count(storage_') = Count(storage_) + n_load_]_vars

\* a discharge of two batches of three, of different quantities: storage holds
\* them in the order the core held them
C13_Witness ==
  /\ Returned("HandleTick")
  /\ trans = "PROCESS->WAITING"
  /\ n_batches_ = 3
  /\ n_load_ = 2
  /\ Count(core_) = 1
  /\ storage_ = <<Material(1, out_recipe_), Material(2, out_recipe_)>>

-----------------------------------------------------------------------------
(* C14.  The entry into PROCESS.                                           *)

\* C14: a tick in INITIAL moves the facility to PROCESS if and only if the core
\* holds n_batches_ batches; every entry into PROCESS, from INITIAL or from
\* WAITING, is made by a tick and sets start_time_ to that tick; and start_time_
\* changes at no other moment.
C14_EntryIntoProcess ==
  [][/\ (op' = "HandleTick" /\ phase_ = INITIAL) =>
          /\ phase_' = PROCESS <=> Count(core_) = n_batches_
          /\ phase_' \in {INITIAL, PROCESS}
     /\ (phase_ # PROCESS /\ phase_' = PROCESS) =>
          /\ op' = "HandleTick"
          /\ start_time_' = time'
     /\ start_time_' # start_time_ =>
          (phase_ # PROCESS /\ phase_' = PROCESS)]_vars

\* a facility that was deployed with an empty core, refuelled by the tock of step
\* 0 and moved from INITIAL to PROCESS by tick 1
C14_Witness ==
  /\ Returned("HandleTick")
  /\ trans = "INITIAL->PROCESS"
  /\ phase_ = PROCESS
  /\ time = 1
  /\ start_time_ = 1

-----------------------------------------------------------------------------
(* C15.  The configurations that are turned down.                          *)

\* a batch_size that is not positive, or a negative time
BadConfiguration ==
  \/ batch_size_ <= 0
  \/ process_time_ < 0
  \/ refuel_time_ < 0
  \/ preorder_time_ < 0

\* C15: a facility configured with batch_size <= 0, or with a negative
\* process_time, refuel_time or preorder_time, fails with ConfigurationError at
\* construction: it never handles a tick or a tock and never takes a delivery.
C15_BadConfigurationRejected ==
  BadConfiguration =>
    /\ err = "ConfigurationError"
    /\ op \notin {"HandleTick", "HandleTock", "AcceptMatlTrades"}

-----------------------------------------------------------------------------
(* C16.  The tock.                                                         *)

\* the batches of buf that hold batch_size_ or more
Full(buf) == {i \in 1..Len(buf) : buf[i].qty >= batch_size_}

\* buf without its first k batches
Behind(buf, k) == SubSeq(buf, k + 1, Len(buf))

\* C16: a tock changes neither phase_ nor start_time_ nor storage_; in PROCESS it
\* changes no buffer; in INITIAL or WAITING it moves the first k batches of
\* reserves_ to the back of core_, in their order, k being the first number at
\* which the core holds n_batches_ batches or reserves_ holds no full batch.
C16_TockRefuelsOnly ==
  [][op' = "HandleTock" =>
       /\ err' = "none"
       /\ phase_' = phase_
       /\ start_time_' = start_time_
       /\ storage_' = storage_
       /\ phase_ = PROCESS => (core_' = core_ /\ reserves_' = reserves_)
       /\ phase_ \in {INITIAL, WAITING} =>
            \E k \in 0..Len(reserves_) :
              /\ core_' = core_ \o SubSeq(reserves_, 1, k)
              /\ reserves_' = Behind(reserves_, k)
              /\ Count(core_') = n_batches_ \/ Full(reserves_') = {}
              /\ \A j \in 0..(k - 1) :
                   /\ Count(core_) + j < n_batches_
                   /\ Full(Behind(reserves_, j)) # {}]_vars

\* a tock in WAITING that moved the one full batch of reserves_ into a core of
\* two that the discharge had emptied, and stopped at the smaller batch behind it
C16_Witness ==
  /\ Returned("HandleTock")
  /\ phase_ = WAITING
  /\ n_batches_ = 2
  /\ n_load_ = 2
  /\ Count(core_) = 1
  /\ Len(reserves_) = 1
  /\ Full(reserves_) = {}

-----------------------------------------------------------------------------
(* C17.  The core holds whole batches.                                     *)

\* C17: in every reachable state every batch of the core holds batch_size_
\* exactly: Refuel_ moves no smaller batch from reserves_ into the core.
C17_CoreHoldsWholeBatches ==
  \A i \in 1..Len(core_) : core_[i].qty = batch_size_

\* a core of two batches, emptied by a discharge and loaded again by a tock from
\* reserves_ that a delivery had filled, with a smaller batch left in reserves_
C17_Witness ==
  /\ Returned("HandleTock")
  /\ phase_ = WAITING
  /\ n_batches_ = 2
  /\ n_load_ = 2
  /\ Count(core_) = 2
  /\ Partial(reserves_) # {}

-----------------------------------------------------------------------------
(* C18.  What changes the buffers.                                         *)

\* the step is a tick at which a run is discharged
Discharge ==
  /\ op' = "HandleTick"
  /\ phase_ = PROCESS
  /\ time' = start_time_ + process_time_

\* the step is a tock that refuels
Refuel == op' = "HandleTock" /\ phase_ \in {INITIAL, WAITING}

\* what a step changes
BufferFrame ==
  /\ core_' # core_ => (Discharge \/ Refuel)
  /\ storage_' # storage_ => (Discharge \/ op' = "GetMatlTrades")
  /\ reserves_' # reserves_ => (Refuel \/ op' = "AcceptMatlTrades")
  /\ op' \in {"GetMatlBids", "GetMatlRequests"} =>
       UNCHANGED <<buffers, phase_, start_time_>>
  /\ (op' = "HandleTick" /\ phase_' = phase_) => UNCHANGED buffers

\* C18: the core is changed by discharge and refuel only, storage by discharge
\* and trade settlement only, reserves by refuel and delivery absorption only;
\* bid generation and order sizing change no buffer, nor phase_ or start_time_;
\* and a tick that changes no phase changes no buffer.
C18_BuffersChangedByTheirOperations == [][BufferFrame]_vars

\* the same of the calls that return: only the discharge that throws part way
\* changes buffers without a change of phase
C18_BuffersChangedByReturningCalls == [][err' = "none" => BufferFrame]_vars

-----------------------------------------------------------------------------
(* C19.  The scheduled discharge.                                          *)

\* C19: with n_batches_ >= 1 and n_load_ >= 1, at every tick that finds the
\* facility in PROCESS at start_time_ + process_time_ the core holds at least
\* n_load_ batches, and the tick returns: the core is never popped when empty.
C19_DischargeNeverFails ==
  [][(Discharge /\ n_batches_ >= 1 /\ n_load_ >= 1) =>
       /\ Count(core_) >= n_load_
       /\ err' = "none"]_vars

\* what holds of the code: the same of the configurations with n_load_ <=
\* n_batches_, the core of a run holding n_batches_ batches
C19_DischargeOfALoadWithinTheCore ==
  [][(Discharge /\ n_batches_ >= 1 /\ n_load_ >= 1 /\ n_load_ <= n_batches_) =>
       /\ Count(core_) >= n_load_
       /\ err' = "none"]_vars

-----------------------------------------------------------------------------
(* C20.  Every call returns.                                               *)

-----------------------------------------------------------------------------
(* C22.  The core of a run.                                                *)

\* C22: whenever phase_ is PROCESS the core holds n_batches_ batches.
C22_FullCoreInProcess == phase_ = PROCESS => Count(core_) = n_batches_

\* the same while no call has thrown: only the discharge that throws part way
\* leaves a facility in PROCESS with a core it has begun to unload
C22_FullCoreInProcessUntilThrown ==
  (phase_ = PROCESS /\ err = "none") => Count(core_) = n_batches_

-----------------------------------------------------------------------------
(* C23.  The changes of phase.                                             *)

\* the changes of phase there are
Edges == {<<INITIAL, PROCESS>>, <<PROCESS, WAITING>>, <<WAITING, PROCESS>>}

\* C23: phase_ changes in a tick only, and only from INITIAL to PROCESS, from
\* PROCESS to WAITING and from WAITING to PROCESS; a tick makes one change at
\* most, so that a tick which finds the facility in PROCESS does not start a run;
\* and INITIAL is not entered again.
C23_PhaseEdges ==
  [][/\ phase_' # phase_ =>
          /\ op' = "HandleTick"
          /\ <<phase_, phase_'>> \in Edges
     /\ (op' = "HandleTick" /\ phase_ = PROCESS) => start_time_' = start_time_
     /\ (op' = "HandleTick" /\ phase_ # PROCESS /\ phase_' = PROCESS) =>
          UNCHANGED buffers
     /\ phase_ # INITIAL => phase_' # INITIAL]_vars

\* a second run started: every edge has been taken
C23_Witness ==
  /\ Returned("HandleTick")
  /\ trans = "WAITING->PROCESS"
  /\ phase_ = PROCESS
  /\ end_of_run >= 0
  /\ start_time_ > end_of_run

-----------------------------------------------------------------------------
(* C25.  The smaller batch of reserves is the last.                        *)

\* C25: in every reachable state only the last batch of reserves_ may hold less
\* than batch_size_; so whenever reserves_ holds batch_size_ or more, its first
\* batch, the one Refuel_ pops, is a full batch.
C25_PartialBatchIsLast ==
  /\ Partial(reserves_) \subseteq {Len(reserves_)}
  /\ Quantity(reserves_) >= batch_size_ =>
       (reserves_ # <<>> /\ reserves_[1].qty = batch_size_)

\* a tock that filled the core from reserves_ a delivery had added to, and left a
\* full batch and a smaller one behind it
C25_Witness ==
  /\ Returned("HandleTock")
  /\ phase_ = WAITING
  /\ Count(core_) = n_batches_
  /\ Len(reserves_) = 2
  /\ Partial(reserves_) = {2}

-----------------------------------------------------------------------------
(* C26.  Reserves stay within the stock ordered.                           *)

\* C26: when every delivery is of no more than order sizing asked for in its
\* step, and nothing is delivered in a step without a request, reserves_ never
\* holds more than n_reserves_ * batch_size_.
C26_ReservesWithinStock ==
  Quantity(reserves_) <= n_reserves_ * batch_size_

\* a delivery of all that was asked for, into reserves_ that held part of a
\* batch: reserves_ holds the two batches of the stock ordered, and no more
C26_Witness ==
  /\ Returned("AcceptMatlTrades")
  /\ n_reserves_ = 2
  /\ SumSeq(args) = 3
  /\ Quantity(reserves_) = n_reserves_ * batch_size_
  /\ Len(reserves_) = 2

-----------------------------------------------------------------------------
(* C24.  Progress under an exchange that delivers.                         *)

\* the facility is out of PROCESS, with ticks enough left to fill its core
Idle ==
  \/ phase_ = INITIAL
  \/ phase_ = WAITING /\ end_of_run + n_batches_ <= Horizon

\* the facility is in a run that ends within the ticks of the model
Running == phase_ = PROCESS /\ start_time_ + process_time_ <= Horizon

\* C24: with n_load_ <= n_batches_, an exchange that delivers every request in
\* its step and ticks and tocks that keep arriving, the facility in INITIAL or
\* WAITING comes to fill its core and to start a run, and every run comes to end
\* with a discharge: no state is a dead end.
C24_Progress ==
  /\ Idle ~> (phase_ = PROCESS)
  /\ Running ~> (phase_ = WAITING)

\* a call has thrown
Stopped == err # "none"

\* what holds of the code: the same, until a delivery throws
C24_ProgressUntilThrown ==
  /\ Idle ~> (phase_ = PROCESS \/ Stopped)
  /\ Running ~> (phase_ = WAITING \/ Stopped)

-----------------------------------------------------------------------------
(* C21: the clone and the facility it was made from                         *)

\* C21: the clone of a facility has the original's process_time, refuel_time,
\* preorder_time, n_batches, n_load, n_reserves and batch_size, and so it makes
\* the phase changes the original makes at the ticks the original makes them:
\* it leaves WAITING no sooner than refuel_time of the original after the end
\* of the run.
C21_CloneEqualsOriginal ==
  /\ process_time_ = prototype.process_time_
  /\ refuel_time_ = prototype.refuel_time_
  /\ preorder_time_ = prototype.preorder_time_
  /\ n_batches_ = prototype.n_batches_
  /\ n_load_ = prototype.n_load_
  /\ n_reserves_ = prototype.n_reserves_
  /\ batch_size_ = prototype.batch_size_
  /\ trans = "WAITING->PROCESS" => time >= end_of_run + prototype.refuel_time_

\* what holds of the code: the clone has the original's other members, and the
\* refuel_time of the constructor
C21_CloneCopiesAllButRefuelTime ==
  /\ process_time_ = prototype.process_time_
  /\ preorder_time_ = prototype.preorder_time_
  /\ n_batches_ = prototype.n_batches_
  /\ n_load_ = prototype.n_load_
  /\ n_reserves_ = prototype.n_reserves_
  /\ batch_size_ = prototype.batch_size_
  /\ refuel_time_ = 0

\* the clone of a facility with a refuel_time starts its second run before the
\* original would
C21_CloneRunsEarly ==
  /\ trans = "WAITING->PROCESS"
  /\ time < end_of_run + prototype.refuel_time_

=============================================================================
